---- MODULE Spec2Model ----
(***************************************************************************)
(* A model of the Everfit exercise uploader: the spreadsheet reader and    *)
(* upload loop of upload_exercises_to_everfit.py, and the payload mapper   *)
(* and API client of everfit_api.py.                                       *)
(*                                                                         *)
(* Text is modelled as a sequence of one-character strings, so that        *)
(* lowercasing, space removal, trimming and splitting are computed as the  *)
(* Python code computes them.  NaN, None and an absent dictionary key are  *)
(* one-element sequences holding a marker no text contains.                *)
(***************************************************************************)
EXTENDS Integers, Sequences, FiniteSets, TLC

VARIABLES
    pc,              \* where the run is: login, load, read, upload, done, aborted, crashed; payload, returned
    run,             \* number of the current run of the script over the file
    token,           \* access_token returned by login
    file,            \* the spreadsheet on disk: a sequence of rows of cells
    df,              \* the DataFrame in memory
    exercises_info,  \* the Exercise Records built from df, in order
    next_ex,         \* index of the next record of exercises_info to upload
    platform_tags,   \* the platform's tags: a sequence of [name, _id]
    ret,             \* what the last get_payload call did
    requests,        \* the HTTP requests issued in this run, in order
    history,         \* per run and row: what happened to the row's upload
    loaded,          \* per run: the sheet as read_excel loaded it
    writes,          \* number of times the file was written
    attempt          \* what the last iteration of the upload loop did

vars == <<pc, run, token, file, df, exercises_info, next_ex, platform_tags,
          ret, requests, history, loaded, writes, attempt>>

(***************************************************************************)
(* Bounds of the model.                                                    *)
(***************************************************************************)
MaxRows == 2
MaxList == 3

\* a run of the script and one rerun over the file it saved
Runs == {1, 2}

(***************************************************************************)
(* Values and text.                                                        *)
(***************************************************************************)
NaN == <<"<NaN>">>
None == <<"<None>">>
Absent == <<"<absent>">>
EmptyStr == <<>>

\* pd.isna(value) for a scalar: true of NaN and of None
isna(value) == value = NaN \/ value = None

\* dict.get(key, default)
DictGet(d, key, default) == IF d[key] = Absent THEN default ELSE d[key]

\* str(value): text is itself, NaN prints as "nan", None as "None"
str(value) ==
    IF value = NaN THEN <<"n", "a", "n">>
    ELSE IF value = None THEN <<"N", "o", "n", "e">>
    ELSE value

safe_str(value) == IF isna(value) \/ value = None THEN EmptyStr ELSE str(value)

UpperChars == <<"A","B","C","D","E","F","G","H","I","J","K","L","M",
                "N","O","P","Q","R","S","T","U","V","W","X","Y","Z">>
LowerChars == <<"a","b","c","d","e","f","g","h","i","j","k","l","m",
                "n","o","p","q","r","s","t","u","v","w","x","y","z">>

LowerChar(c) ==
    IF \E i \in DOMAIN UpperChars : UpperChars[i] = c
    THEN LowerChars[CHOOSE i \in DOMAIN UpperChars : UpperChars[i] = c]
    ELSE c

\* str.lower()
lower(s) == [i \in DOMAIN s |-> LowerChar(s[i])]

\* str.replace(" ", "")
remove_spaces(s) == SelectSeq(s, LAMBDA c : c # " ")

IsSpace(c) == c \in {" ", "\t", "\n"}

RECURSIVE lstrip(_)
lstrip(s) == IF s # <<>> /\ IsSpace(Head(s)) THEN lstrip(Tail(s)) ELSE s

RECURSIVE rstrip(_)
rstrip(s) ==
    IF s # <<>> /\ IsSpace(s[Len(s)]) THEN rstrip(SubSeq(s, 1, Len(s) - 1)) ELSE s

\* str.strip()
strip(s) == rstrip(lstrip(s))

\* the key a lookup table is read with: value lowercased, spaces removed
NormalKey(value) == remove_spaces(lower(safe_str(value)))

\* dict.get(key, default) on a lookup table
MapGet(map, key, default) == IF key \in DOMAIN map THEN map[key] ELSE default

RECURSIVE SplitAcc(_, _, _, _)
SplitAcc(s, delimiter, cur, acc) ==
    IF s = <<>> THEN Append(acc, cur)
    ELSE IF Head(s) = delimiter THEN SplitAcc(Tail(s), delimiter, <<>>, Append(acc, cur))
    ELSE SplitAcc(Tail(s), delimiter, Append(cur, Head(s)), acc)

\* str.split(delimiter): the empty string splits into one empty part
split(s, delimiter) == SplitAcc(s, delimiter, <<>>, <<>>)

RECURSIVE join(_, _)
join(sep, parts) ==
    IF parts = <<>> THEN <<>>
    ELSE IF Len(parts) = 1 THEN parts[1]
    ELSE parts[1] \o sep \o join(sep, Tail(parts))

(***************************************************************************)
(* The lookup tables of everfit_config: normalized name -> identifier.     *)
(***************************************************************************)
DefaultModalityId == "66013e83b117d35345209b07"
StrengthCategoryId == "5cd912c319ae01d22ea76012"
RestFieldId == "5cd912bb19ae01d22ea76011"

CATEGORY_TYPE_MAP ==
    (<<"s","t","r","e","n","g","t","h">> :> StrengthCategoryId)
    @@ (<<"c","a","r","d","i","o">> :> "category_cardio")

MODALITY_MAP ==
    (<<"e","m","p","t","y">> :> DefaultModalityId)
    @@ (<<"d","u","m","b","b","e","l","l">> :> "modality_dumbbell")

MOVEMENT_PATTERN_MAP ==
    (<<"s","q","u","a","t">> :> "pattern_squat")
    @@ (<<"l","u","n","g","e">> :> "pattern_lunge")
    @@ (<<"h","i","n","g","e">> :> "pattern_hinge")
    @@ (<<"h","i","p","h","i","n","g","e">> :> "pattern_hinge")

MUSCLE_GROUP_MAP ==
    (<<"c","h","e","s","t">> :> "muscle_chest")
    @@ (<<"p","e","c","s">> :> "muscle_chest")
    @@ (<<"b","a","c","k">> :> "muscle_back")

TRACKING_FIELDS_MAP ==
    (<<"r","e","p","s">> :> "field_reps")
    @@ (<<"w","e","i","g","h","t">> :> "field_weight")

(***************************************************************************)
(* The API client.  A response is what the server, or the network, did     *)
(* with one request:                                                       *)
(*   "neterr"     the request raised a RequestException (no connection,    *)
(*                timeout);                                                *)
(*   "status"     a status that is not 2xx: raise_for_status raises an     *)
(*                HTTPError, which is a RequestException;                  *)
(*   "notjson"    a body response.json() rejects with a ValueError;        *)
(*   "nofield"    the JSON object {}, which has none of the entries;       *)
(*   "nulldata"   the JSON object {"data": null};                          *)
(*   "nonobject"  JSON that is not an object: the array [1];               *)
(*   "ok"         the JSON object the operation expects.                   *)
(***************************************************************************)
NoError == [kind |-> "none", value |-> EmptyStr]

\* the except clauses of the operations: RequestException around the request
\* and raise_for_status, ValueError around response.json()
RequestFailed(response) == response \in {"neterr", "status"}
JsonFailed(response) == response = "notjson"

\* isinstance(access_token, str) and access_token.strip()
ValidToken(access_token) == ~isna(access_token) /\ strip(access_token) # <<>>

Request(method, what, arg) == [method |-> method, what |-> what, arg |-> arg]

\* get_tag_list: count the tags with one request, fetch them all with a second;
\* none says the call returned None, value is the list it returned otherwise
get_tag_list(access_token, tags_on_platform, first_response, second_response) ==
    LET first == <<Request("GET", "tag_list", <<1>>)>>
        both == <<Request("GET", "tag_list", <<1>>),
                  Request("GET", "tag_list", <<Len(tags_on_platform)>>)>>
    IN  IF ~ValidToken(access_token)
        THEN [raised |-> TRUE, error |-> [kind |-> "ValueError", value |-> access_token],
              none |-> TRUE, value |-> <<>>, calls |-> <<>>]
        ELSE IF RequestFailed(first_response) \/ JsonFailed(first_response)
        THEN [raised |-> FALSE, error |-> NoError, none |-> TRUE, value |-> <<>>,
              calls |-> first]
        ELSE IF first_response \in {"nulldata", "nonobject"}
        THEN [raised |-> TRUE, error |-> [kind |-> "AttributeError", value |-> EmptyStr],
              none |-> TRUE, value |-> <<>>, calls |-> first]
        ELSE IF first_response = "nofield" \/ Len(tags_on_platform) <= 0
        THEN [raised |-> FALSE, error |-> NoError, none |-> FALSE, value |-> <<>>,
              calls |-> first]
        ELSE IF RequestFailed(second_response) \/ JsonFailed(second_response)
        THEN [raised |-> FALSE, error |-> NoError, none |-> TRUE, value |-> <<>>,
              calls |-> both]
        ELSE IF second_response \in {"nulldata", "nonobject"}
        THEN [raised |-> TRUE, error |-> [kind |-> "AttributeError", value |-> EmptyStr],
              none |-> TRUE, value |-> <<>>, calls |-> both]
        ELSE IF second_response = "nofield"
        THEN [raised |-> FALSE, error |-> NoError, none |-> FALSE, value |-> <<>>,
              calls |-> both]
        ELSE [raised |-> FALSE, error |-> NoError, none |-> FALSE,
              value |-> tags_on_platform, calls |-> both]

\* the identifier the platform gives the serial-th tag it stores
NewTagId(tag, serial) == <<"tag", tag, serial>>

\* create_new_tag_id: one POST; the new tag's _id, or None
create_new_tag_id(access_token, tag, response, serial) ==
    IF ~ValidToken(access_token)
    THEN [raised |-> TRUE, error |-> [kind |-> "ValueError", value |-> access_token],
          value |-> None, calls |-> <<>>, created |-> <<>>]
    ELSE IF isna(tag) \/ strip(tag) = <<>>
    THEN [raised |-> TRUE, error |-> [kind |-> "ValueError", value |-> tag],
          value |-> None, calls |-> <<>>, created |-> <<>>]
    ELSE IF response = "ok"
    THEN [raised |-> FALSE, error |-> NoError, value |-> NewTagId(strip(tag), serial),
          calls |-> <<Request("POST", "tag", tag)>>,
          created |-> <<[name |-> strip(tag), _id |-> NewTagId(strip(tag), serial)]>>]
    ELSE IF response \in {"nulldata", "nonobject"}
    THEN [raised |-> TRUE, error |-> [kind |-> "AttributeError", value |-> EmptyStr],
          value |-> None, calls |-> <<Request("POST", "tag", tag)>>, created |-> <<>>]
    ELSE [raised |-> FALSE, error |-> NoError, value |-> None,
          calls |-> <<Request("POST", "tag", tag)>>, created |-> <<>>]

\* what post_exercise and put_exercise return for a response: none says None,
\* truthy is bool(data), dict says data is a JSON object, exercise that
\* data.get("exercise") is truthy
ParsedResponse(response, calls) ==
    IF RequestFailed(response) \/ JsonFailed(response)
    THEN [raised |-> FALSE, error |-> NoError, none |-> TRUE, truthy |-> FALSE,
          dict |-> FALSE, exercise |-> FALSE, calls |-> calls]
    ELSE [raised |-> FALSE, error |-> NoError, none |-> FALSE,
          truthy |-> response # "nofield",
          dict |-> response # "nonobject",
          exercise |-> response = "ok",
          calls |-> calls]

\* what an operation gives when it raises the error before any request
Raises(kind) ==
    [raised |-> TRUE, error |-> [kind |-> kind, value |-> EmptyStr], none |-> TRUE,
     truthy |-> FALSE, dict |-> FALSE, exercise |-> FALSE, calls |-> <<>>]

\* isinstance(payload, dict): get_payload's payloads are dictionaries, the
\* value None is not
IsDict(payload) == payload.title # None

\* post_exercise: one POST; the parsed response, or None
post_exercise(payload, access_token, response) ==
    IF ~IsDict(payload) \/ ~ValidToken(access_token) THEN Raises("ValueError")
    ELSE ParsedResponse(response, <<Request("POST", "exercise", payload.title)>>)

\* put_exercise: one PUT; the parsed response, or None
put_exercise(access_token, exercise_id, payload, response) ==
    IF ~IsDict(payload) \/ ~ValidToken(access_token) THEN Raises("ValueError")
    ELSE ParsedResponse(response, <<Request("PUT", "exercise", exercise_id)>>)

\* get_exercises: count the exercises with one request, fetch them all with a
\* second; total is the number of exercises on the platform
get_exercises(access_token, total, first_response, second_response) ==
    LET first == <<Request("POST", "exercises", <<50>>)>>
        both == <<Request("POST", "exercises", <<50>>),
                  Request("POST", "exercises", <<total>>)>>
        returns(none, calls) ==
            [raised |-> FALSE, error |-> NoError, none |-> none, calls |-> calls]
        raises(kind, calls) ==
            [raised |-> TRUE, error |-> [kind |-> kind, value |-> EmptyStr],
             none |-> TRUE, calls |-> calls]
    IN  IF ~ValidToken(access_token) THEN raises("ValueError", <<>>)
        ELSE IF RequestFailed(first_response) \/ JsonFailed(first_response)
        THEN returns(TRUE, first)
        ELSE IF first_response = "nonobject" THEN raises("AttributeError", first)
        ELSE IF first_response \in {"nofield", "nulldata"} \/ total <= 0
        THEN returns(TRUE, first)
        ELSE IF RequestFailed(second_response) \/ JsonFailed(second_response)
        THEN returns(TRUE, both)
        ELSE IF second_response = "nofield" THEN raises("KeyError", both)
        ELSE IF second_response = "nonobject" THEN raises("TypeError", both)
        ELSE IF second_response = "nulldata" THEN returns(TRUE, both)
        ELSE returns(FALSE, both)

\* create_tag_mappings: name -> _id, a later tag of the same name winning
RECURSIVE create_tag_mappings(_)
create_tag_mappings(tag_list) ==
    IF tag_list = <<>> THEN <<>>
    ELSE LET last == tag_list[Len(tag_list)]
             rest == create_tag_mappings(SubSeq(tag_list, 1, Len(tag_list) - 1))
         IN  (last.name :> last._id) @@ rest

(***************************************************************************)
(* get_payload, section by section.  A section that can raise returns      *)
(* [raised, error, value]; error.value is the value the message names.     *)
(***************************************************************************)
PayloadCategoryName(exercise_info) ==
    LET category == DictGet(exercise_info, "category",
                            <<"s","t","r","e","n","g","t","h">>)
    IN  IF isna(category) \/ category = None
        THEN <<"s","t","r","e","n","g","t","h">>
        ELSE category

\* a category lookup that, like the modality lookup, has no default
PayloadCategoryNoDefault(exercise_info) ==
    MapGet(CATEGORY_TYPE_MAP, NormalKey(PayloadCategoryName(exercise_info)), "")

PayloadCategory(exercise_info) ==
    MapGet(CATEGORY_TYPE_MAP, NormalKey(PayloadCategoryName(exercise_info)),
           StrengthCategoryId)

\* a modality lookup that looks a blank value up as it is
PayloadModalityBlankLookedUp(exercise_info) ==
    LET modality == DictGet(exercise_info, "modality", EmptyStr)
        id == MapGet(MODALITY_MAP, NormalKey(modality), "")
    IN  IF ~isna(modality) /\ modality # None
        THEN IF id = ""
             THEN [raised |-> TRUE,
                   error |-> [kind |-> "Modality", value |-> modality],
                   value |-> id]
             ELSE [raised |-> FALSE, error |-> NoError, value |-> id]
        ELSE [raised |-> FALSE, error |-> NoError, value |-> DefaultModalityId]

\* a modality lookup that, like the category lookup, falls back to the default
PayloadModalityDefaulting(exercise_info) ==
    LET modality == DictGet(exercise_info, "modality", EmptyStr)
    IN  [raised |-> FALSE, error |-> NoError,
         value |-> IF isna(modality) THEN DefaultModalityId
                   ELSE MapGet(MODALITY_MAP, NormalKey(modality), DefaultModalityId)]

PayloadModality(exercise_info) ==
    LET given == DictGet(exercise_info, "modality", EmptyStr)
    IN  IF ~isna(given) /\ given # None
        THEN LET modality == IF strip(given) = EmptyStr
                             THEN <<"e","m","p","t","y">> ELSE given
                 id == MapGet(MODALITY_MAP, NormalKey(modality), "")
             IN  IF id = ""
                 THEN [raised |-> TRUE,
                       error |-> [kind |-> "Modality", value |-> modality],
                       value |-> id]
                 ELSE [raised |-> FALSE, error |-> NoError, value |-> id]
        ELSE [raised |-> FALSE, error |-> NoError, value |-> DefaultModalityId]

\* the loop without its check for an identifier already added
RECURSIVE MovementPatternLoopNoDedup(_, _, _)
MovementPatternLoopNoDedup(patterns, idx, movement_patterns) ==
    IF idx >= Len(patterns)
    THEN [raised |-> FALSE, error |-> NoError, value |-> movement_patterns]
    ELSE LET pattern == patterns[idx + 1]
             movement_pattern_id ==
                 MapGet(MOVEMENT_PATTERN_MAP, NormalKey(pattern), "")
         IN  IF isna(pattern) \/ pattern = None \/ pattern = EmptyStr
             THEN MovementPatternLoopNoDedup(patterns, idx + 1, movement_patterns)
             ELSE IF movement_pattern_id = ""
             THEN [raised |-> TRUE,
                   error |-> [kind |-> "Movement pattern", value |-> pattern],
                   value |-> movement_patterns]
             ELSE MovementPatternLoopNoDedup(patterns, idx + 1,
                      Append(movement_patterns,
                             [is_primary |-> (idx = 0),
                              movement_pattern |-> movement_pattern_id]))

\* the loop over enumerate(movement_patterns), idx counted from 0
RECURSIVE MovementPatternLoop(_, _, _)
MovementPatternLoop(patterns, idx, movement_patterns) ==
    IF idx >= Len(patterns)
    THEN [raised |-> FALSE, error |-> NoError, value |-> movement_patterns]
    ELSE LET pattern == patterns[idx + 1]
             movement_pattern_id ==
                 MapGet(MOVEMENT_PATTERN_MAP, NormalKey(pattern), "")
         IN  IF isna(pattern) \/ pattern = None \/ pattern = EmptyStr
             THEN MovementPatternLoop(patterns, idx + 1, movement_patterns)
             ELSE IF movement_pattern_id = ""
             THEN [raised |-> TRUE,
                   error |-> [kind |-> "Movement pattern", value |-> pattern],
                   value |-> movement_patterns]
             ELSE IF \E i \in DOMAIN movement_patterns :
                        movement_patterns[i].movement_pattern = movement_pattern_id
             THEN MovementPatternLoop(patterns, idx + 1, movement_patterns)
             ELSE MovementPatternLoop(patterns, idx + 1,
                      Append(movement_patterns,
                             [is_primary |-> (idx = 0),
                              movement_pattern |-> movement_pattern_id]))

PayloadMovementPatterns(exercise_info) ==
    MovementPatternLoop(DictGet(exercise_info, "movement_patterns", <<>>), 0, <<>>)

\* the loop over enumerate(muscle_groups), idx counted from 0
RECURSIVE MuscleGroupLoop(_, _, _)
MuscleGroupLoop(muscles, idx, muscle_groups) ==
    IF idx >= Len(muscles)
    THEN [raised |-> FALSE, error |-> NoError, value |-> muscle_groups]
    ELSE LET muscle == muscles[idx + 1]
             muscle_group_id == MapGet(MUSCLE_GROUP_MAP, NormalKey(muscle), "")
         IN  IF isna(muscle) \/ muscle = None \/ muscle = EmptyStr
             THEN MuscleGroupLoop(muscles, idx + 1, muscle_groups)
             ELSE IF muscle_group_id = ""
             THEN [raised |-> TRUE,
                   error |-> [kind |-> "Muscle group", value |-> muscle],
                   value |-> muscle_groups]
             ELSE IF \E i \in DOMAIN muscle_groups :
                        muscle_groups[i].muscle_group = muscle_group_id
             THEN MuscleGroupLoop(muscles, idx + 1, muscle_groups)
             ELSE MuscleGroupLoop(muscles, idx + 1,
                      Append(muscle_groups,
                             [is_primary |-> (idx = 0),
                              muscle_group |-> muscle_group_id]))

PayloadMuscleGroups(exercise_info) ==
    MuscleGroupLoop(DictGet(exercise_info, "muscle_groups", <<>>), 0, <<>>)

RECURSIVE TrackingFieldLoop(_, _)
TrackingFieldLoop(tracking_fields, fields) ==
    IF tracking_fields = <<>> THEN fields
    ELSE LET field_id == MapGet(TRACKING_FIELDS_MAP,
                                remove_spaces(lower(Head(tracking_fields))), "")
         IN  TrackingFieldLoop(Tail(tracking_fields),
                 IF field_id # "" THEN Append(fields, field_id) ELSE fields)

PayloadFields(exercise_info) ==
    Append(TrackingFieldLoop(DictGet(exercise_info, "tracking_fields", <<>>), <<>>),
           RestFieldId)

PayloadInstructions(exercise_info) ==
    IF isna(exercise_info["instructions"]) THEN <<>>
    ELSE split(safe_str(exercise_info["instructions"]), "\n")

PayloadVideoLink(exercise_info) ==
    IF isna(DictGet(exercise_info, "video_link", EmptyStr)) THEN EmptyStr
    ELSE safe_str(DictGet(exercise_info, "video_link", EmptyStr))

\* the loop without seen_tags: a repeated name is resolved again
RECURSIVE TagLoopNoSeen(_, _, _, _, _, _)
TagLoopNoSeen(requested_tags, tag_mappings, access_token, create_response, serial, acc) ==
    IF requested_tags = <<>>
    THEN [raised |-> FALSE, error |-> NoError, value |-> acc.tags,
          calls |-> acc.calls, created |-> acc.created]
    ELSE LET requested_tag == str(Head(requested_tags))
             made == create_new_tag_id(access_token, requested_tag,
                                       create_response[requested_tag],
                                       serial + Len(acc.created) + 1)
         IN  IF requested_tag = EmptyStr
             THEN TagLoopNoSeen(Tail(requested_tags), tag_mappings, access_token,
                                create_response, serial, acc)
             ELSE IF requested_tag \in DOMAIN tag_mappings
             THEN TagLoopNoSeen(Tail(requested_tags), tag_mappings, access_token,
                                create_response, serial,
                                [acc EXCEPT !.tags = Append(@, tag_mappings[requested_tag])])
             ELSE IF made.raised
             THEN [raised |-> TRUE, error |-> made.error, value |-> acc.tags,
                   calls |-> acc.calls \o made.calls, created |-> acc.created]
             ELSE TagLoopNoSeen(Tail(requested_tags), tag_mappings, access_token,
                                create_response, serial,
                                [acc EXCEPT !.tags = Append(@, made.value),
                                            !.calls = @ \o made.calls,
                                            !.created = @ \o made.created])

\* the loop over requested_tags; acc is [tags, seen_tags, calls, created]
RECURSIVE TagLoop(_, _, _, _, _, _)
TagLoop(requested_tags, tag_mappings, access_token, create_response, serial, acc) ==
    IF requested_tags = <<>>
    THEN [raised |-> FALSE, error |-> NoError, value |-> acc.tags,
          calls |-> acc.calls, created |-> acc.created]
    ELSE LET requested_tag == str(Head(requested_tags))
             made == create_new_tag_id(access_token, requested_tag,
                                       create_response[requested_tag],
                                       serial + Len(acc.created) + 1)
         IN  IF requested_tag = EmptyStr
                \/ \E i \in DOMAIN acc.seen_tags : acc.seen_tags[i] = requested_tag
             THEN TagLoop(Tail(requested_tags), tag_mappings, access_token,
                          create_response, serial, acc)
             ELSE IF requested_tag \in DOMAIN tag_mappings
             THEN TagLoop(Tail(requested_tags), tag_mappings, access_token,
                          create_response, serial,
                          [acc EXCEPT !.tags = Append(@, tag_mappings[requested_tag]),
                                      !.seen_tags = Append(@, requested_tag)])
             ELSE IF made.raised
             THEN [raised |-> TRUE, error |-> made.error, value |-> acc.tags,
                   calls |-> acc.calls \o made.calls, created |-> acc.created]
             ELSE TagLoop(Tail(requested_tags), tag_mappings, access_token,
                          create_response, serial,
                          [acc EXCEPT !.tags = Append(@, made.value),
                                      !.seen_tags = Append(@, requested_tag),
                                      !.calls = @ \o made.calls,
                                      !.created = @ \o made.created])

\* the tags section: fetch the tag list, map names to ids, resolve or create
PayloadTags(exercise_info, access_token, tags_on_platform, server) ==
    LET listed == get_tag_list(access_token, tags_on_platform,
                               server.list_first, server.list_second)
        tag_list == IF listed.none THEN <<>> ELSE listed.value
        looped == TagLoop(DictGet(exercise_info, "tags", <<>>),
                          create_tag_mappings(tag_list), access_token,
                          server.create, Len(tags_on_platform),
                          [tags |-> <<>>, seen_tags |-> <<>>,
                           calls |-> listed.calls, created |-> <<>>])
    IN  IF listed.raised
        THEN [raised |-> TRUE, error |-> listed.error, value |-> <<>>,
              calls |-> listed.calls, created |-> <<>>, tag_list |-> <<>>]
        ELSE [raised |-> looped.raised, error |-> looped.error,
              value |-> looped.value, calls |-> looped.calls,
              created |-> looped.created, tag_list |-> tag_list]

NoPayload == [title |-> None]

\* get_payload: [raised, error, payload, calls, created, tag_list]; server is what
\* the platform answers to the requests the call makes
get_payload(access_token, exercise_info, tags_on_platform, server) ==
    LET modality == PayloadModality(exercise_info)
        patterns == PayloadMovementPatterns(exercise_info)
        muscles == PayloadMuscleGroups(exercise_info)
        tags == PayloadTags(exercise_info, access_token, tags_on_platform, server)
        failed(section) ==
            [raised |-> TRUE, error |-> section.error, payload |-> NoPayload,
             calls |-> <<>>, created |-> <<>>, tag_list |-> <<>>]
    IN  IF modality.raised THEN failed(modality)
        ELSE IF patterns.raised THEN failed(patterns)
        ELSE IF muscles.raised THEN failed(muscles)
        ELSE IF tags.raised
        THEN [raised |-> TRUE, error |-> tags.error, payload |-> NoPayload,
              calls |-> tags.calls, created |-> tags.created,
              tag_list |-> tags.tag_list]
        ELSE [raised |-> FALSE, error |-> NoError,
              payload |->
                  [title |-> safe_str(DictGet(exercise_info, "exercise_name", None)),
                   instructions |-> PayloadInstructions(exercise_info),
                   fields |-> PayloadFields(exercise_info),
                   modality |-> modality.value,
                   videoLink |-> PayloadVideoLink(exercise_info),
                   category_type |-> PayloadCategory(exercise_info),
                   category_type_name |-> PayloadCategoryName(exercise_info),
                   movement_patterns |-> patterns.value,
                   muscle_groups |-> muscles.value,
                   tags |-> tags.value],
              calls |-> tags.calls, created |-> tags.created,
              tag_list |-> tags.tag_list]

(***************************************************************************)
(* What the server may answer, and the inputs get_payload is checked on.   *)
(***************************************************************************)
ListResponses == {"ok", "neterr"}
CreateResponses == {"ok", "neterr", "nofield"}
PostResponses == {"ok", "neterr", "nofield", "nonobject"}

RECURSIVE ListsUpTo(_, _)
ListsUpTo(S, n) ==
    IF n = 0 THEN {<<>>}
    ELSE LET shorter == ListsUpTo(S, n - 1)
         IN  shorter \cup {Append(l, x) : l \in {m \in shorter : Len(m) = n - 1}, x \in S}

Range(f) == {f[i] : i \in DOMAIN f}

\* the answers a platform can give to the requests of one get_payload call
Servers(exercise_info) ==
    [list_first : ListResponses, list_second : ListResponses,
     create : [{str(t) : t \in Range(DictGet(exercise_info, "tags", <<>>))}
                   -> CreateResponses]]

ValidTokenText == <<"t","o","k">>

\* the record upload_exercises_to_everfit builds for a row of blank cells
BlankRecord ==
    [exercise_name |-> <<"A">>, instructions |-> EmptyStr, modality |-> EmptyStr,
     category |-> EmptyStr, movement_patterns |-> <<>>, muscle_groups |-> <<>>,
     tracking_fields |-> <<>>, video_link |-> EmptyStr, tags |-> <<>>,
     row_index |-> 1]

ModalityValues ==
    {Absent, NaN, None, EmptyStr, <<" ">>, <<" "," ">>,
     <<"D","u","m","b"," ","b","e","l","l">>, <<"d","u","m","b","b","e","l","l">>,
     <<"E","m","p","t","y">>, <<"k","e","t","t","l","e">>, <<"d","u","m","b">>}

CategoryValues ==
    {Absent, NaN, None, EmptyStr, <<" ">>,
     <<"C","a","r"," ","d","i","o">>, <<"s","t","r","e","n","g","t","h">>,
     <<"y","o","g","a">>}

PatternValues ==
    {EmptyStr, NaN, None, <<" ">>,
     <<"s","q","u","a","t">>, <<"S","q","u","a","t">>, <<"l","u","n","g","e">>,
     <<"H","i","p"," ","h","i","n","g","e">>, <<"h","i","n","g","e">>,
     <<"j","u","m","p">>}

MuscleValues ==
    {EmptyStr, NaN, None,
     <<"C","h","e","s","t">>, <<"p","e","c","s">>, <<"b","a","c","k">>,
     <<"a","r","m">>}

\* tag names as both readers produce them: non-blank, trimmed text
TagValues == {<<"t","1">>, <<"T","1">>, <<"t","2">>}

PlatformTagSamples ==
    {<<>>,
     <<[name |-> <<"t","1">>, _id |-> <<"tag", <<"t","1">>, 1>>]>>,
     <<[name |-> <<"t","1">>, _id |-> <<"tag", <<"t","1">>, 1>>],
       [name |-> <<"t","2">>, _id |-> <<"tag", <<"t","2">>, 2>>]>>,
     <<[name |-> <<"t","2">>, _id |-> <<"tag", <<"t","2">>, 1>>],
       [name |-> <<"t","2">>, _id |-> <<"tag", <<"t","2">>, 2>>]>>}

\* modality and category vary together, with and without a bad movement pattern
ModeInputs ==
    {[BlankRecord EXCEPT !.modality = m, !.category = c, !.movement_patterns = p] :
        m \in ModalityValues, c \in CategoryValues,
        p \in {<<>>, << <<"j","u","m","p">> >>}}

\* the movement-pattern and muscle-group lists vary, one of them at full length
ListInputs ==
    {[BlankRecord EXCEPT !.movement_patterns = p, !.muscle_groups = m] :
        p \in ListsUpTo(PatternValues, MaxList),
        m \in {<<>>, << <<"a","r","m">> >>}}
    \cup
    {[BlankRecord EXCEPT !.movement_patterns = p, !.muscle_groups = m, !.modality = NaN] :
        p \in {<<>>, << <<"s","q","u","a","t">> >>},
        m \in ListsUpTo(MuscleValues, MaxList)}

\* the requested tags vary
TagInputs ==
    {[BlankRecord EXCEPT !.tags = t] : t \in ListsUpTo(TagValues, MaxList)}

NoReturn ==
    [raised |-> FALSE, error |-> NoError, payload |-> NoPayload, calls |-> <<>>,
     created |-> <<>>, tag_list |-> <<>>]

\* before the upload loop has processed a record
NoAttempt == [row |-> 0, failures |-> {}, posted |-> FALSE, marked |-> FALSE]

InitPayload ==
    /\ pc = "payload"
    /\ run = 1
    /\ token = ValidTokenText
    /\ file = <<>>
    /\ df = <<>>
    /\ \/ /\ exercises_info \in {<<i>> : i \in ModeInputs \cup ListInputs}
          /\ platform_tags = <<>>
       \/ /\ exercises_info \in {<<i>> : i \in TagInputs}
          /\ platform_tags \in PlatformTagSamples
    /\ next_ex = 1
    /\ ret = NoReturn
    /\ requests = <<>>
    /\ history = <<>>
    /\ loaded = <<>>
    /\ writes = 0
    /\ attempt = NoAttempt

\* one call of get_payload on the record, the platform answering as server says
GetPayloadCall ==
    /\ pc = "payload"
    /\ \E server \in Servers(exercises_info[1]) :
          \E r \in {get_payload(token, exercises_info[1], platform_tags, server)} :
              /\ ret' = r
              /\ requests' = requests \o r.calls
              /\ platform_tags' = platform_tags \o r.created
    /\ pc' = "returned"
    /\ UNCHANGED <<run, token, file, df, exercises_info, next_ex, history, loaded, writes,
                   attempt>>

NextPayload == GetPayloadCall

SpecPayload == InitPayload /\ [][NextPayload]_vars

(***************************************************************************)
(* The spreadsheet.  A row is a record of cells, one per column; a cell    *)
(* of the file is Blank, a number or text, and read_excel loads a blank    *)
(* cell as NaN.                                                            *)
(***************************************************************************)
Blank == <<"<blank>">>
Zero == <<"<0>">>
One == <<"<1>">>

Columns == {"Name", "Everfit Uploaded", "Instructions", "Spanish Instructions",
            "Movement Patterns", "Muscle Group", "Tracking Fields", "Exercise Tags",
            "Video Link"}

\* pd.read_excel: the rows of the file, blank cells as NaN
read_excel(sheet) ==
    [i \in DOMAIN sheet |->
        [c \in Columns |-> IF sheet[i][c] = Blank THEN NaN ELSE sheet[i][c]]]

\* DataFrame.to_excel(index=False): the rows of the frame, NaN as blank cells
to_excel(frame) ==
    [i \in DOMAIN frame |->
        [c \in Columns |-> IF frame[i][c] = NaN THEN Blank ELSE frame[i][c]]]

(***************************************************************************)
(* The reader: the loop over df.iterrows() of upload_exercises_to_everfit. *)
(***************************************************************************)
\* a reader that skips rows on their name alone
RowSkippedNameOnly(row) ==
    isna(row["Name"]) \/ row["Name"] = EmptyStr

\* the two continue statements of the loop
RowSkipped(row) ==
    LET everfit_uploaded == row["Everfit Uploaded"]
        exercise_name == row["Name"]
    IN  \/ (~isna(everfit_uploaded) /\ everfit_uploaded = One)
        \/ isna(exercise_name) \/ exercise_name = EmptyStr

RECURSIVE DropEmpty(_)
DropEmpty(parts) ==
    IF parts = <<>> THEN <<>>
    ELSE IF strip(Head(parts)) = EmptyStr THEN DropEmpty(Tail(parts))
    ELSE <<strip(Head(parts))>> \o DropEmpty(Tail(parts))

safe_string_split(value) ==
    IF isna(value) \/ value = EmptyStr THEN <<>>
    ELSE DropEmpty(split(str(value), ";"))

Digits == {"0", "1", "2", "3", "4", "5", "6", "7", "8", "9"}

RECURSIVE SkipDigits(_)
SkipDigits(s) == IF s # <<>> /\ Head(s) \in Digits THEN SkipDigits(Tail(s)) ELSE s

\* re.sub(r'^\d+\.\s*', '', s)
StripNumbering(s) ==
    LET rest == SkipDigits(s)
    IN  IF s # <<>> /\ Head(s) \in Digits /\ rest # <<>> /\ Head(rest) = "."
        THEN lstrip(Tail(rest))
        ELSE s

\* a pairing that stops at the end of the shorter list, as zip does
RECURSIVE PairInstructionsShortest(_, _)
PairInstructionsShortest(eng, spa) ==
    IF eng = <<>> \/ spa = <<>> THEN <<>>
    ELSE <<join(<<" ", "|", " ">>,
                SelectSeq(<<Head(eng), Head(spa)>>, LAMBDA x : x # EmptyStr))>>
         \o PairInstructionsShortest(Tail(eng), Tail(spa))

\* zip_longest(eng, spa, fillvalue=""), each pair joined by " | " when both exist
RECURSIVE PairInstructions(_, _)
PairInstructions(eng, spa) ==
    IF eng = <<>> /\ spa = <<>> THEN <<>>
    ELSE LET e == IF eng = <<>> THEN EmptyStr ELSE Head(eng)
             p == IF spa = <<>> THEN EmptyStr ELSE Head(spa)
             pair == join(<<" ", "|", " ">>, SelectSeq(<<e, p>>, LAMBDA x : x # EmptyStr))
         IN  <<pair>> \o PairInstructions(IF eng = <<>> THEN <<>> ELSE Tail(eng),
                                          IF spa = <<>> THEN <<>> ELSE Tail(spa))

instructions_mixed(row) ==
    LET instruction_parts ==
            [i \in DOMAIN safe_string_split(row["Instructions"]) |->
                StripNumbering(safe_string_split(row["Instructions"])[i])]
        spanish_instruction_parts ==
            [i \in DOMAIN safe_string_split(row["Spanish Instructions"]) |->
                StripNumbering(safe_string_split(row["Spanish Instructions"])[i])]
    IN  join(<<"\n">>, PairInstructions(instruction_parts, spanish_instruction_parts))

\* exercise_info_dict for the row at index idx of the frame; row_index is not a
\* key of the dictionary: it records which row the record was built from
exercise_info_dict(row, idx) ==
    [exercise_name |-> row["Name"],
     instructions |-> instructions_mixed(row),
     modality |-> EmptyStr,
     category |-> EmptyStr,
     movement_patterns |-> safe_string_split(row["Movement Patterns"]),
     muscle_groups |-> safe_string_split(row["Muscle Group"]),
     tracking_fields |-> safe_string_split(row["Tracking Fields"]),
     video_link |-> str(row["Video Link"]),
     tags |-> safe_string_split(row["Exercise Tags"]),
     row_index |-> idx]

\* the whole loop: the records of the rows not skipped, in row order
RECURSIVE ReadRowsFrom(_, _)
ReadRowsFrom(frame, idx) ==
    IF idx > Len(frame) THEN <<>>
    ELSE IF RowSkipped(frame[idx]) THEN ReadRowsFrom(frame, idx + 1)
    ELSE <<exercise_info_dict(frame[idx], idx)>> \o ReadRowsFrom(frame, idx + 1)

\* df.loc[df["Name"] == name, "Everfit Uploaded"] = 1
MarkUploaded(frame, name) ==
    [i \in DOMAIN frame |->
        IF ~isna(frame[i]["Name"]) /\ frame[i]["Name"] = name
        THEN [frame[i] EXCEPT !["Everfit Uploaded"] = One]
        ELSE frame[i]]

(***************************************************************************)
(* login.                                                                  *)
(***************************************************************************)
login(email, password, response) ==
    IF isna(email) \/ strip(email) = EmptyStr \/ isna(password) \/ strip(password) = EmptyStr
    THEN [raised |-> TRUE, error |-> [kind |-> "ValueError", value |-> EmptyStr],
          value |-> None, calls |-> <<>>]
    ELSE IF response = "ok"
    THEN [raised |-> FALSE, error |-> NoError, value |-> ValidTokenText,
          calls |-> <<Request("POST", "login", email)>>]
    ELSE IF response = "nonobject"
    THEN [raised |-> TRUE, error |-> [kind |-> "AttributeError", value |-> EmptyStr],
          value |-> None, calls |-> <<Request("POST", "login", email)>>]
    ELSE [raised |-> FALSE, error |-> NoError, value |-> None,
          calls |-> <<Request("POST", "login", email)>>]

(***************************************************************************)
(* The sheets a run starts from.                                           *)
(***************************************************************************)
NameValues == {Blank, <<"A">>, <<"B">>}
FlagValues == {Blank, Zero, One}

\* the cells of a row other than its name and its flag
BadPatternCells ==
    [c \in Columns |->
        IF c = "Movement Patterns" THEN <<"j","u","m","p">>
        ELSE IF c = "Video Link" THEN <<"u","r","l">>
        ELSE Blank]

TaggedCells ==
    [c \in Columns |->
        IF c = "Movement Patterns" THEN <<"S","q","u","a","t",";"," ","s","q","u","a","t">>
        ELSE IF c = "Exercise Tags" THEN <<"t","1",";">>
        ELSE IF c = "Instructions" THEN <<"1","."," ","a",";","b">>
        ELSE IF c = "Spanish Instructions" THEN <<"c">>
        ELSE IF c = "Tracking Fields" THEN <<"R","e","p","s">>
        ELSE Blank]

RowValues ==
    {[cells EXCEPT !["Name"] = n, !["Everfit Uploaded"] = f] :
        cells \in {BadPatternCells, TaggedCells}, n \in NameValues, f \in FlagValues}

Sheets == {s \in ListsUpTo(RowValues, MaxRows) : Len(s) = MaxRows}

(***************************************************************************)
(* One-row sheets whose text cells vary: the instruction cells, the video  *)
(* link and the list cells.                                                *)
(***************************************************************************)
EnglishExample == <<"1","."," ","D","o"," ","X",";","2","."," ","D","o"," ","Y">>
SpanishExample == <<"1","."," ","H","a","z"," ","X",";","2","."," ","H","a","z"," ","Y">>

InstructionCells ==
    {Blank, EnglishExample, <<"a">>, <<"1",".",";","b">>,
     <<" ","a"," ",";",";","b",";">>,
     <<"1","2","."," "," ","a",";","b",";","c">>,
     <<"a","\n","b">>}

SpanishCells ==
    {Blank, SpanishExample, <<"x">>, <<"x",";","2",".","y">>, <<"3",".">>}

VideoCells == {Blank, <<"u","r","l">>}

\* the list cells of a row: all blank, or all filled in
BlankListCells == [c \in Columns |-> Blank]

FilledListCells ==
    [c \in Columns |->
        IF c = "Movement Patterns" THEN <<"s","q","u","a","t",";","l","u","n","g","e">>
        ELSE IF c = "Muscle Group" THEN <<"C","h","e","s","t">>
        ELSE IF c = "Tracking Fields" THEN <<"R","e","p","s",";","W","e","i","g","h","t">>
        ELSE IF c = "Exercise Tags" THEN <<"t","1">>
        ELSE Blank]

CellSheets ==
    {<<[cells EXCEPT !["Name"] = <<"A">>, !["Instructions"] = e,
                     !["Spanish Instructions"] = s, !["Video Link"] = v]>> :
        cells \in {BlankListCells, FilledListCells},
        e \in InstructionCells, s \in SpanishCells, v \in VideoCells}

EmailValues == {EmptyStr, <<"m","e">>}
LoginResponses == {"ok", "neterr", "nofield", "nonobject"}

(***************************************************************************)
(* A run of upload_exercises_to_everfit, and a rerun over the saved file.  *)
(***************************************************************************)
Init ==
    /\ pc = "login"
    /\ run = 1
    /\ token = None
    /\ file \in Sheets
    /\ df = <<>>
    /\ exercises_info = <<>>
    /\ next_ex = 1
    /\ platform_tags = <<>>
    /\ ret = NoReturn
    /\ requests = <<>>
    /\ history = <<>>
    /\ loaded = <<>>
    /\ writes = 0
    /\ attempt = NoAttempt

\* a login whose result is not tested: the run goes on without a token
LoginUnchecked ==
    /\ pc = "login"
    /\ \E email \in EmailValues, response \in LoginResponses :
          \E r \in {login(email, <<"p","w">>, response)} :
              /\ requests' = requests \o r.calls
              /\ token' = r.value
              /\ pc' = IF r.raised THEN "aborted" ELSE "load"
    /\ UNCHANGED <<run, file, df, exercises_info, next_ex, platform_tags, ret,
                   history, loaded, writes, attempt>>

\* lines 13-21: prompt for the credentials and log in
Login ==
    /\ pc = "login"
    /\ \E email \in EmailValues, response \in LoginResponses :
          \E r \in {login(email, <<"p","w">>, response)} :
              /\ requests' = requests \o r.calls
              /\ token' = r.value
              /\ pc' = IF r.raised \/ r.value = None THEN "aborted" ELSE "load"
    /\ UNCHANGED <<run, file, df, exercises_info, next_ex, platform_tags, ret,
                   history, loaded, writes, attempt>>

\* lines 24-32: read the file, or give up when it cannot be read
LoadExcel ==
    /\ pc = "load"
    /\ \E readable \in BOOLEAN :
          IF readable
          THEN /\ df' = read_excel(file)
               /\ loaded' = Append(loaded, [disk |-> file, df |-> read_excel(file)])
               /\ pc' = "read"
          ELSE /\ pc' = "aborted"
               /\ UNCHANGED <<df, loaded, attempt>>
    /\ UNCHANGED <<run, token, file, exercises_info, next_ex, platform_tags, ret,
                   requests, history, writes, attempt>>

\* lines 34-120: build the records
ReadRows ==
    /\ pc = "read"
    /\ exercises_info' = ReadRowsFrom(df, 1)
    /\ next_ex' = 1
    /\ history' = Append(history, [status |-> [i \in DOMAIN df |-> "none"],
                                   handed |-> <<>>])
    /\ pc' = "upload"
    /\ UNCHANGED <<run, token, file, df, platform_tags, ret, requests, loaded, writes,
                   attempt>>

\* lines 124-136, the body of the upload loop, for one record: r is what
\* get_payload did, listed what its tag-list fetch gave, posted what
\* post_exercise did with the payload.  The result holds the platform's tags
\* and the requests issued afterwards, the frame afterwards and the outcome for
\* the record; failures names what went wrong on the way: a value not in its
\* table, the tag-list fetch, a create-tag call, the create-exercise call.
UploadBody(exercise_info, tags_on_platform, frame, server, r, listed, posted) ==
    LET outcome == IF r.raised THEN "skipped"
                   ELSE IF posted.raised \/ (posted.truthy /\ ~posted.dict) THEN "crashed"
                   ELSE IF posted.truthy /\ posted.exercise THEN "ok"
                   ELSE "failed"
        mapping == r.raised /\ r.error.kind \in {"Modality", "Movement pattern", "Muscle group"}
        failures ==
            (IF mapping THEN {"mapping"} ELSE {})
            \cup (IF ~mapping /\ (listed.raised \/ listed.none) THEN {"tag_list"} ELSE {})
            \cup (IF \E i \in DOMAIN r.calls :
                         r.calls[i].what = "tag" /\ server.create[r.calls[i].arg] # "ok"
                  THEN {"create_tag"} ELSE {})
            \cup (IF ~r.raised /\ outcome # "ok" THEN {"post"} ELSE {})
    IN  [ret |-> r,
         platform_tags |-> tags_on_platform \o r.created,
         calls |-> r.calls \o (IF r.raised THEN <<>> ELSE posted.calls),
         df |-> IF outcome = "ok"
                THEN MarkUploaded(frame, exercise_info.exercise_name)
                ELSE frame,
         outcome |-> outcome,
         attempt |-> [row |-> exercise_info.row_index, failures |-> failures,
                      posted |-> ~r.raised /\ posted.calls # <<>>,
                      marked |-> outcome = "ok"]]

\* the iterations the upload loop can make on a record: one per way the
\* platform can answer its requests
UploadBodies(access_token, exercise_info, tags_on_platform, frame) ==
    UNION {
        UNION {
            {UploadBody(exercise_info, tags_on_platform, frame, server, r, listed, posted) :
                posted \in {post_exercise(r.payload, access_token, response) :
                               response \in PostResponses}} :
            r \in {get_payload(access_token, exercise_info, tags_on_platform, server)},
            listed \in {get_tag_list(access_token, tags_on_platform,
                                     server.list_first, server.list_second)}} :
        server \in Servers(exercise_info)}

\* an iteration that writes the frame back to the file after each record
UploadExerciseSaving ==
    /\ pc = "upload"
    /\ next_ex <= Len(exercises_info)
    /\ \E u \in UploadBodies(token, exercises_info[next_ex], platform_tags, df) :
      /\ ret' = u.ret
      /\ platform_tags' = u.platform_tags
      /\ requests' = requests \o u.calls
      /\ df' = u.df
      /\ attempt' = u.attempt
      /\ history' = [history EXCEPT
                        ![run].status[exercises_info[next_ex].row_index] = u.outcome,
                        ![run].handed = Append(@, exercises_info[next_ex].row_index)]
      /\ pc' = IF u.outcome = "crashed" THEN "crashed" ELSE pc
      /\ file' = to_excel(u.df)
      /\ writes' = writes + 1
    /\ next_ex' = next_ex + 1
    /\ UNCHANGED <<run, token, exercises_info, loaded>>

\* lines 123-136: one iteration of the upload loop
UploadExercise ==
    /\ pc = "upload"
    /\ next_ex <= Len(exercises_info)
    /\ \E u \in UploadBodies(token, exercises_info[next_ex], platform_tags, df) :
      /\ ret' = u.ret
      /\ platform_tags' = u.platform_tags
      /\ requests' = requests \o u.calls
      /\ df' = u.df
      /\ attempt' = u.attempt
      /\ history' = [history EXCEPT
                        ![run].status[exercises_info[next_ex].row_index] = u.outcome,
                        ![run].handed = Append(@, exercises_info[next_ex].row_index)]
      /\ pc' = IF u.outcome = "crashed" THEN "crashed" ELSE pc
    /\ next_ex' = next_ex + 1
    /\ UNCHANGED <<run, token, file, exercises_info, loaded, writes>>

\* lines 139-143: write the frame back to the file
SaveExcel ==
    /\ pc = "upload"
    /\ next_ex > Len(exercises_info)
    /\ file' = to_excel(df)
    /\ writes' = writes + 1
    /\ pc' = "done"
    /\ UNCHANGED <<run, token, df, exercises_info, next_ex, platform_tags, ret,
                   requests, history, loaded, attempt>>

\* the script is started again on the file the completed run saved
Rerun ==
    /\ pc = "done"
    /\ run + 1 \in Runs
    /\ run' = run + 1
    /\ pc' = "login"
    /\ token' = None
    /\ df' = <<>>
    /\ exercises_info' = <<>>
    /\ next_ex' = 1
    /\ ret' = NoReturn
    /\ requests' = <<>>
    /\ attempt' = NoAttempt
    /\ UNCHANGED <<file, platform_tags, history, loaded, writes>>

\* one run of the script
Next == Login \/ LoadExcel \/ ReadRows \/ UploadExercise \/ SaveExcel

Spec == Init /\ [][Next]_vars

\* the process is terminated from outside while the run is under way
Interrupt ==
    /\ pc \in {"login", "load", "read", "upload"}
    /\ pc' = "killed"
    /\ UNCHANGED <<run, token, file, df, exercises_info, next_ex, platform_tags, ret,
                   requests, history, loaded, writes, attempt>>

\* one run of the script, which may be terminated
NextInterrupt == Next \/ Interrupt

SpecInterrupt == Init /\ [][NextInterrupt]_vars

\* a run of the script and a rerun
NextRerun == Next \/ Rerun

SpecRerun == Init /\ [][NextRerun]_vars

\* a run over a one-row sheet whose text cells vary
InitCells ==
    /\ pc = "login"
    /\ run = 1
    /\ token = None
    /\ file \in CellSheets
    /\ df = <<>>
    /\ exercises_info = <<>>
    /\ next_ex = 1
    /\ platform_tags = <<>>
    /\ ret = NoReturn
    /\ requests = <<>>
    /\ history = <<>>
    /\ loaded = <<>>
    /\ writes = 0
    /\ attempt = NoAttempt

SpecCells == InitCells /\ [][Next]_vars

(***************************************************************************)
(* The operations of the API client, each called once on its own, with     *)
(* valid and invalid arguments and every kind of response.                 *)
(***************************************************************************)
ResponseKinds == {"ok", "neterr", "status", "notjson", "nofield", "nulldata", "nonobject"}

TokenValues == {ValidTokenText, None, EmptyStr, <<" ">>}
CredentialValues == {<<"m","e">>, EmptyStr, <<" ">>, None}
TagNameValues == {<<"t","1">>, EmptyStr, <<" ">>, None}
PayloadValues == {[title |-> <<"A">>], NoPayload}
TotalValues == {0, 2}

\* what a call did: the operation, its arguments, the responses the server had
\* ready, whether it raised, whether it returned None or the empty list, and
\* the requests it sent
Answer(op, args, responses, r, empty) ==
    [op |-> op, args |-> args, responses |-> responses, raised |-> r.raised,
     error |-> r.error, empty |-> empty, calls |-> r.calls]

InitClient ==
    /\ pc = "client"
    /\ run = 1
    /\ token \in TokenValues
    /\ file = <<>>
    /\ df = <<>>
    /\ exercises_info = <<>>
    /\ next_ex = 1
    /\ platform_tags \in PlatformTagSamples
    /\ ret = NoReturn
    /\ requests = <<>>
    /\ history = <<>>
    /\ loaded = <<>>
    /\ writes = 0
    /\ attempt = NoAttempt

CallLogin ==
    /\ pc = "client"
    /\ \E email \in CredentialValues, password \in CredentialValues,
          response \in ResponseKinds :
          \E r \in {login(email, password, response)} :
              /\ ret' = Answer("login", <<email, password>>, <<response>>, r,
                               ~r.raised /\ r.value = None)
              /\ requests' = requests \o r.calls
    /\ pc' = "answered"
    /\ UNCHANGED <<run, token, file, df, exercises_info, next_ex, platform_tags,
                   history, loaded, writes, attempt>>

CallGetTagList ==
    /\ pc = "client"
    /\ \E first_response \in ResponseKinds, second_response \in ResponseKinds :
          \E r \in {get_tag_list(token, platform_tags, first_response, second_response)} :
              /\ ret' = Answer("get_tag_list", <<token>>,
                               <<first_response, second_response>>, r,
                               ~r.raised /\ (r.none \/ r.value = <<>>))
              /\ requests' = requests \o r.calls
    /\ pc' = "answered"
    /\ UNCHANGED <<run, token, file, df, exercises_info, next_ex, platform_tags,
                   history, loaded, writes, attempt>>

CallCreateNewTagId ==
    /\ pc = "client"
    /\ \E tag \in TagNameValues, response \in ResponseKinds :
          \E r \in {create_new_tag_id(token, tag, response, Len(platform_tags) + 1)} :
              /\ ret' = Answer("create_new_tag_id", <<token, tag>>, <<response>>, r,
                               ~r.raised /\ r.value = None)
              /\ requests' = requests \o r.calls
              /\ platform_tags' = platform_tags \o r.created
    /\ pc' = "answered"
    /\ UNCHANGED <<run, token, file, df, exercises_info, next_ex, history, loaded, writes,
                   attempt>>

CallPostExercise ==
    /\ pc = "client"
    /\ \E payload \in PayloadValues, response \in ResponseKinds :
          \E r \in {post_exercise(payload, token, response)} :
              /\ ret' = Answer("post_exercise", <<token, payload.title>>, <<response>>, r,
                               ~r.raised /\ r.none)
              /\ requests' = requests \o r.calls
    /\ pc' = "answered"
    /\ UNCHANGED <<run, token, file, df, exercises_info, next_ex, platform_tags,
                   history, loaded, writes, attempt>>

CallPutExercise ==
    /\ pc = "client"
    /\ \E payload \in PayloadValues, response \in ResponseKinds :
          \E r \in {put_exercise(token, <<"e","1">>, payload, response)} :
              /\ ret' = Answer("put_exercise", <<token, payload.title>>, <<response>>, r,
                               ~r.raised /\ r.none)
              /\ requests' = requests \o r.calls
    /\ pc' = "answered"
    /\ UNCHANGED <<run, token, file, df, exercises_info, next_ex, platform_tags,
                   history, loaded, writes, attempt>>

CallGetExercises ==
    /\ pc = "client"
    /\ \E total \in TotalValues, first_response \in ResponseKinds,
          second_response \in ResponseKinds :
          \E r \in {get_exercises(token, total, first_response, second_response)} :
              /\ ret' = Answer("get_exercises", <<token>>,
                               <<first_response, second_response>>, r,
                               ~r.raised /\ r.none)
              /\ requests' = requests \o r.calls
    /\ pc' = "answered"
    /\ UNCHANGED <<run, token, file, df, exercises_info, next_ex, platform_tags,
                   history, loaded, writes, attempt>>

NextClient ==
    \/ CallLogin
    \/ CallGetTagList
    \/ CallCreateNewTagId
    \/ CallPostExercise
    \/ CallPutExercise
    \/ CallGetExercises

SpecClient == InitClient /\ [][NextClient]_vars

(***************************************************************************)
(* Properties of get_payload, read off the state a call returned in.       *)
(***************************************************************************)
Returned == pc = "returned"
Info == exercises_info[1]

\* a sequence without the later occurrences of its elements
RECURSIVE FirstOccurrences(_)
FirstOccurrences(seq) ==
    IF seq = <<>> THEN <<>>
    ELSE LET before == FirstOccurrences(SubSeq(seq, 1, Len(seq) - 1))
             last == seq[Len(seq)]
         IN  IF \E i \in DOMAIN before : before[i] = last THEN before
             ELSE Append(before, last)

TagCreateCalls(name) ==
    {i \in DOMAIN ret.calls : ret.calls[i].what = "tag" /\ ret.calls[i].arg = name}

ListedIds(name) ==
    {ret.tag_list[i]._id : i \in {j \in DOMAIN ret.tag_list : ret.tag_list[j].name = name}}

\* what the create-tag call for name returned: the new tag's id, or None
ReturnedId(name) ==
    IF \E i \in DOMAIN ret.created : ret.created[i].name = name
    THEN (CHOOSE c \in Range(ret.created) : c.name = name)._id
    ELSE None

RECURSIVE ResolvedIds(_, _)
ResolvedIds(entries, map) ==
    IF entries = <<>> THEN <<>>
    ELSE LET e == Head(entries)
         IN  IF isna(e) \/ e = EmptyStr THEN ResolvedIds(Tail(entries), map)
             ELSE <<map[NormalKey(e)]>> \o ResolvedIds(Tail(entries), map)

\* C6: the movement_patterns and muscle_groups of a payload hold no identifier
\* twice; they are the identifiers of the input entries in the order of their
\* first occurrence.
C6_NoDuplicateIdentifiers ==
    (Returned /\ ~ret.raised) =>
        LET mp == ret.payload.movement_patterns
            mg == ret.payload.muscle_groups
        IN  /\ \A i, j \in DOMAIN mp :
                  mp[i].movement_pattern = mp[j].movement_pattern => i = j
            /\ \A i, j \in DOMAIN mg : mg[i].muscle_group = mg[j].muscle_group => i = j
            /\ [i \in DOMAIN mp |-> mp[i].movement_pattern]
                   = FirstOccurrences(ResolvedIds(Info.movement_patterns,
                                                  MOVEMENT_PATTERN_MAP))
            /\ [i \in DOMAIN mg |-> mg[i].muscle_group]
                   = FirstOccurrences(ResolvedIds(Info.muscle_groups, MUSCLE_GROUP_MAP))

C6_Witness ==
    /\ Returned /\ ~ret.raised
    /\ Info.movement_patterns
           = << <<"s","q","u","a","t">>, <<"S","q","u","a","t">>, <<"l","u","n","g","e">> >>
    /\ Len(ret.payload.movement_patterns) = 2
    /\ ret.payload.movement_patterns[1].movement_pattern = "pattern_squat"
    /\ ret.payload.movement_patterns[2].movement_pattern = "pattern_lunge"

\* C7: in a payload, the first entry of a non-empty movement_patterns or
\* muscle_groups list is the primary one and no other entry is.
C7_FirstSurvivorIsPrimary ==
    (Returned /\ ~ret.raised) =>
        LET mp == ret.payload.movement_patterns
            mg == ret.payload.muscle_groups
        IN  /\ \A i \in DOMAIN mp : mp[i].is_primary = (i = 1)
            /\ \A i \in DOMAIN mg : mg[i].is_primary = (i = 1)

\* a value that is text with something other than whitespace in it
NonBlank(value) == value # Absent /\ ~isna(value) /\ strip(value) # EmptyStr

UnknownModality ==
    {m \in {Info.modality} : NonBlank(m) /\ NormalKey(m) \notin DOMAIN MODALITY_MAP}
UnknownPatterns ==
    {e \in Range(Info.movement_patterns) :
        NonBlank(e) /\ NormalKey(e) \notin DOMAIN MOVEMENT_PATTERN_MAP}
UnknownMuscles ==
    {e \in Range(Info.muscle_groups) :
        NonBlank(e) /\ NormalKey(e) \notin DOMAIN MUSCLE_GROUP_MAP}

\* the values of the record whose normalized form is not in their table
NotInModalityTable ==
    {m \in {Info.modality} : NormalKey(m) \notin DOMAIN MODALITY_MAP}
NotInPatternTable ==
    {e \in Range(Info.movement_patterns) : NormalKey(e) \notin DOMAIN MOVEMENT_PATTERN_MAP}
NotInMuscleTable ==
    {e \in Range(Info.muscle_groups) : NormalKey(e) \notin DOMAIN MUSCLE_GROUP_MAP}

\* C8: when the modality, a movement pattern or a muscle group of the record is
\* non-blank and not in its table, get_payload raises, no payload is returned,
\* and the error names a value of the record that is not in its table.
C8_UnknownValueRaises ==
    (Returned /\ UnknownModality \cup UnknownPatterns \cup UnknownMuscles # {}) =>
        /\ ret.raised
        /\ ret.payload.title = None
        /\ \/ ret.error.kind = "Modality" /\ ret.error.value \in NotInModalityTable
           \/ ret.error.kind = "Movement pattern" /\ ret.error.value \in NotInPatternTable
           \/ ret.error.kind = "Muscle group" /\ ret.error.value \in NotInMuscleTable

C8_Witness ==
    /\ Returned
    /\ Info.modality = <<"k","e","t","t","l","e">>
    /\ ret.raised
    /\ ret.error = [kind |-> "Modality", value |-> <<"k","e","t","t","l","e">>]

C10_CategoryDefaultsToStrength ==
    /\ (Returned /\ ret.raised) => ret.error.kind \in {"Modality", "Movement pattern", "Muscle group"}
    /\ (Returned /\ ~ret.raised) =>
          ret.payload.category_type =
              IF NonBlank(Info.category) /\ NormalKey(Info.category) \in DOMAIN CATEGORY_TYPE_MAP
              THEN CATEGORY_TYPE_MAP[NormalKey(Info.category)]
              ELSE StrengthCategoryId

C10_Witness ==
    /\ Returned /\ ~ret.raised
    /\ Info.category = <<"y","o","g","a">>
    /\ Info.modality = NaN
    /\ ret.payload.category_type = StrengthCategoryId

(***************************************************************************)
(* Properties of a run.                                                    *)
(***************************************************************************)
\* the reader has built the records of this run
RecordsBuilt == pc \in {"upload", "done"}

FlagIsOne(row) == row["Everfit Uploaded"] = One
NameIsBlank(row) == row["Name"] = NaN \/ row["Name"] = EmptyStr

Remaining(row) == ~FlagIsOne(row) /\ ~NameIsBlank(row)

\* the indices of the remaining rows of a frame, in row order
RemainingRows(frame) ==
    LET F[idx \in 1..(Len(frame) + 1)] ==
            IF idx > Len(frame) THEN <<>>
            ELSE IF Remaining(frame[idx]) THEN <<idx>> \o F[idx + 1]
            ELSE F[idx + 1]
    IN  F[1]

\* C1: the records handed to get_payload are those of the rows of the loaded
\* sheet whose flag is not 1 and whose Name is not blank, once each, in
\* spreadsheet order.
C1_OnlyRemainingRowsAreHanded ==
    RecordsBuilt =>
        LET remaining == RemainingRows(loaded[run].df)
        IN  /\ [i \in DOMAIN exercises_info |-> exercises_info[i].row_index] = remaining
            /\ \A i \in DOMAIN exercises_info :
                  exercises_info[i].exercise_name
                      = loaded[run].df[exercises_info[i].row_index]["Name"]
            /\ history[run].handed = SubSeq(remaining, 1, next_ex - 1)
            /\ pc = "done" => history[run].handed = remaining

C1_Witness ==
    /\ pc = "done"
    /\ Len(loaded[run].df) >= 2
    /\ FlagIsOne(loaded[run].df[1]) /\ ~NameIsBlank(loaded[run].df[1])
    /\ history[run].handed = <<2>>

\* C2: a row's flag becomes 1 during a run only when the create-exercise call
\* made for that row succeeded.
C2_FlagSetOnlyAfterOwnSuccess ==
    RecordsBuilt =>
        \A i \in DOMAIN df :
            (FlagIsOne(df[i]) /\ ~FlagIsOne(loaded[run].df[i]))
                => history[run].status[i] = "ok"

\* C3: in the rerun over the file a completed run saved, no row whose upload
\* succeeded in the first run is handed to the upload loop, and every row
\* whose upload failed or was skipped in the first run is handed to it again.
C3_RerunIsIncremental ==
    (run = 2 /\ RecordsBuilt) =>
        \A i \in DOMAIN history[1].status :
            /\ history[1].status[i] = "ok"
                  => \A k \in DOMAIN exercises_info : exercises_info[k].row_index # i
            /\ history[1].status[i] \in {"failed", "skipped"}
                  => /\ \E k \in DOMAIN exercises_info : exercises_info[k].row_index = i
                     /\ pc = "done" => \E k \in DOMAIN history[2].handed :
                                           history[2].handed[k] = i

\* C4: the file a run saved differs from the file it loaded in the flag column
\* only, and only in the rows the run uploaded.
C4_SaveChangesOnlyUploadedFlags ==
    pc = "done" =>
        \A i \in DOMAIN file :
            /\ \A c \in Columns \ {"Everfit Uploaded"} :
                  file[i][c] = loaded[run].disk[i][c]
            /\ history[run].status[i] # "ok" => file[i] = loaded[run].disk[i]

(***************************************************************************)
(* Properties of the record and the payload built from one row.            *)
(***************************************************************************)
\* the row the run loaded and the record the reader built from it
Row == loaded[run].df[1]
Record == exercises_info[1]
RecordBuilt == RecordsBuilt /\ Len(exercises_info) = 1

\* text without a leading marker: digits, a period and the whitespace after it
Unmarked(t) ==
    IF \E k \in 1..(Len(t) - 1) :
           /\ \A j \in 1..k : t[j] \in Digits
           /\ t[k + 1] = "."
    THEN LET k == CHOOSE k \in 1..(Len(t) - 1) :
                      (\A j \in 1..k : t[j] \in Digits) /\ t[k + 1] = "."
         IN  lstrip(SubSeq(t, k + 2, Len(t)))
    ELSE t

\* the tokens of a cell: its parts between ';', trimmed, the empty ones
\* dropped, each without its marker
Tokens(cell) ==
    IF cell = NaN THEN <<>>
    ELSE LET parts == split(cell, ";")
             trimmed == [i \in DOMAIN parts |-> strip(parts[i])]
             kept == SelectSeq(trimmed, LAMBDA t : t # EmptyStr)
         IN  [i \in DOMAIN kept |-> Unmarked(kept[i])]

Longer(a, b) == IF Len(a) >= Len(b) THEN Len(a) ELSE Len(b)

\* the number of lines of a text: none in the empty text
LineCount(text) == IF text = EmptyStr THEN 0 ELSE Len(split(text, "\n"))

Separator == <<" ", "|", " ">>

\* pair i when every token that exists at position i is written
PairOfExisting(eng, spa, i) ==
    IF i <= Len(eng) /\ i <= Len(spa) THEN eng[i] \o Separator \o spa[i]
    ELSE IF i <= Len(eng) THEN eng[i]
    ELSE spa[i]

\* pair i when only the non-empty tokens at position i are written
PairOfNonEmpty(eng, spa, i) ==
    LET e == IF i <= Len(eng) THEN eng[i] ELSE EmptyStr
        p == IF i <= Len(spa) THEN spa[i] ELSE EmptyStr
    IN  IF e # EmptyStr /\ p # EmptyStr THEN e \o Separator \o p
        ELSE IF e # EmptyStr THEN e
        ELSE p

\* C11 as stated: the blob is the newline-joined pairs of the tokens that
\* exist at each position, English and Spanish joined by ' | ', and it has as
\* many lines as the longer token list.
C11_BlobPairsExistingTokens ==
    RecordBuilt =>
        LET eng == Tokens(Row["Instructions"])
            spa == Tokens(Row["Spanish Instructions"])
        IN  /\ Record.instructions
                  = join(<<"\n">>, [i \in 1..Longer(eng, spa) |-> PairOfExisting(eng, spa, i)])
            /\ LineCount(Record.instructions) = Longer(eng, spa)

\* C11 amended: the blob is the newline-joined pairs, one per position up to
\* the length of the longer token list; a pair holds the tokens at its position
\* that are non-empty once their marker is stripped, joined by ' | '.  The
\* example of the specification gives 'Do X | Haz X' newline 'Do Y | Haz Y'.
C11_BlobPairsNonEmptyTokens ==
    RecordBuilt =>
        LET eng == Tokens(Row["Instructions"])
            spa == Tokens(Row["Spanish Instructions"])
        IN  /\ Record.instructions
                  = join(<<"\n">>, [i \in 1..Longer(eng, spa) |-> PairOfNonEmpty(eng, spa, i)])
            /\ (Row["Instructions"] = EnglishExample
                    /\ Row["Spanish Instructions"] = SpanishExample)
                  => Record.instructions
                         = <<"D","o"," ","X"," ","|"," ","H","a","z"," ","X","\n",
                             "D","o"," ","Y"," ","|"," ","H","a","z"," ","Y">>

C11_Witness ==
    /\ RecordBuilt
    /\ Row["Instructions"] = <<"1","2","."," "," ","a",";","b",";","c">>
    /\ Row["Spanish Instructions"] = <<"x",";","2",".","y">>
    /\ Record.instructions = <<"a"," ","|"," ","x","\n","b"," ","|"," ","y","\n","c">>

\* get_payload returned a payload for the record of the row
PayloadBuilt == RecordBuilt /\ next_ex = 2 /\ ~ret.raised

\* C12: the instructions of the payload are the empty list when the record has
\* no instruction text, and the lines of the blob otherwise; a row whose two
\* instruction cells are blank gets the empty list.
C12_NoTextGivesEmptyList ==
    PayloadBuilt =>
        /\ ret.payload.instructions
               = IF Record.instructions = EmptyStr THEN <<>>
                 ELSE split(Record.instructions, "\n")
        /\ (Row["Instructions"] = NaN /\ Row["Spanish Instructions"] = NaN)
              => ret.payload.instructions = <<>>

\* C13: a blank cell of an eligible row becomes the empty string or the empty
\* list in the record and makes no step of the row's processing fail; a blank
\* Video Link cell gives the payload the empty string as its videoLink.
C13_BlankCellsBecomeEmpty ==
    RecordBuilt =>
        /\ Row["Movement Patterns"] = NaN => Record.movement_patterns = <<>>
        /\ Row["Muscle Group"] = NaN => Record.muscle_groups = <<>>
        /\ Row["Tracking Fields"] = NaN => Record.tracking_fields = <<>>
        /\ Row["Exercise Tags"] = NaN => Record.tags = <<>>
        /\ (Row["Instructions"] = NaN /\ Row["Spanish Instructions"] = NaN)
              => Record.instructions = EmptyStr
        /\ Row["Video Link"] = NaN => Record.video_link = EmptyStr
        /\ (next_ex = 2 /\ \A c \in Columns \ {"Name"} : Row[c] = NaN)
              => ~ret.raised
        /\ (PayloadBuilt /\ Row["Video Link"] = NaN)
              => ret.payload.videoLink = EmptyStr

(***************************************************************************)
(* Properties of the API client, read off the state a call returned in.    *)
(***************************************************************************)
Answered == pc = "answered"

\* the arguments of the call pass the operation's validation: every one is
\* text with something other than whitespace in it
ValidArguments == \A i \in DOMAIN ret.args : NonBlank(ret.args[i])

\* the responses to the requests the call sent
Received == {ret.responses[i] : i \in DOMAIN ret.responses \cap DOMAIN ret.calls}

\* the operations that read an entry of the response
ReadsEntries == ret.op \in {"login", "get_tag_list", "create_new_tag_id", "get_exercises"}

\* C14: a call with valid arguments never raises, and returns None or the
\* empty list when a request fails, has a status that is not 2xx, has a body
\* that is not JSON or, for an operation that reads entries, has a JSON body
\* without them; a call with invalid arguments raises before any request.
C14_NoExceptionReachesCaller ==
    Answered =>
        /\ ValidArguments => ~ret.raised
        /\ (ValidArguments /\ Received \cap {"neterr", "status", "notjson"} # {})
              => ret.empty
        /\ (ValidArguments /\ ReadsEntries
                /\ Received \cap {"nofield", "nulldata", "nonobject"} # {})
              => ret.empty
        /\ ret.raised => ret.calls = <<>>
        /\ ~ValidArguments => ret.raised

(***************************************************************************)
(* Properties of the upload loop.                                          *)
(***************************************************************************)
\* C15: an exercise whose processing met a failure is skipped: after a value
\* not in its table, a failed tag-list fetch or a failed create-tag call no
\* create-exercise request is sent for it, after any failure its row is not
\* marked by its own iteration; and the loop goes on to every later record,
\* each processed once.
C15_FailedExerciseIsSkipped ==
    /\ attempt.failures \cap {"mapping", "tag_list", "create_tag"} # {} => ~attempt.posted
    /\ attempt.failures # {} => ~attempt.marked
    /\ pc # "crashed"
    /\ pc = "done" => history[run].handed = RemainingRows(loaded[run].df)

\* C16: a run writes the file once, when it has processed its last record;
\* until then, and for good when the run is terminated before, the file is the
\* file the run loaded, whatever was uploaded in the meantime.
C16_FileWrittenOnceAtTheEnd ==
    /\ pc # "done" =>
          /\ writes = run - 1
          /\ Len(loaded) = run => file = loaded[run].disk
    /\ pc = "done" =>
          /\ writes = run
          /\ next_ex > Len(exercises_info)
          /\ history[run].handed = RemainingRows(loaded[run].df)

C16_Witness ==
    /\ pc = "killed"
    /\ attempt.marked
    /\ \E i \in DOMAIN df : FlagIsOne(df[i]) /\ ~FlagIsOne(read_excel(file)[i])
    /\ \E i \in DOMAIN requests : requests[i].what = "exercise"

\* the requests of the upload loop
UploadRequests ==
    {i \in DOMAIN requests : requests[i].what \in {"tag_list", "tag", "exercise"}}

\* C17: a run whose login gave no token, whose credentials were rejected or
\* whose file could not be read is aborted: it sends no tag-list, create-tag
\* or create-exercise request and does not write the file; only a run with a
\* token and a loaded sheet gets to the reader and the upload loop.
C17_FatalFailureAbortsBeforeUploads ==
    /\ (pc # "login" /\ token = None) => pc = "aborted"
    /\ pc = "aborted" =>
          /\ UploadRequests = {}
          /\ writes = run - 1
          /\ exercises_info = <<>>
          /\ Len(history) = run - 1
    /\ pc \in {"read", "upload", "done", "crashed"} =>
          /\ ValidToken(token)
          /\ Len(loaded) = run

C17_Witness ==
    /\ pc = "aborted"
    /\ token = None
    /\ Len(requests) = 1
    /\ requests[1].what = "login"
    /\ writes = 0

====
